---- MODULE Spec2Model ----
(***************************************************************************)
(* Module lifecycle scripts of the RNBO project: createModule.py and       *)
(* removeModule.py operating on modules/ and modules/CMakeLists.txt, the   *)
(* batch scripts test/removeAll.py and test/test.py that run them, and     *)
(* addDemo.py that provisions the DEMO module.                             *)
(*                                                                         *)
(* Spec runs the two scripts, each run one step, with I/O faults;          *)
(* SpecValidate applies validate_module_id; SpecRegistry applies the two   *)
(* functions that edit CMakeLists.txt; SpecSubstitute runs createModule.py *)
(* on drawn template texts with I/O errors file by file; SpecSteps follows *)
(* a run of removeModule.py call by call; SpecBatch runs the batch         *)
(* scripts, one subprocess a step; SpecConcurrent follows a removal        *)
(* through its read and its write of CMakeLists.txt while another process  *)
(* creates modules; SpecDemo runs addDemo.py.                              *)
(*                                                                         *)
(* Strings are sequences of atoms.  An identifier is a sequence of         *)
(* characters.  The text of CMakeLists.txt is a sequence whose atoms are   *)
(* either a whole occurrence of the text add_subdirectory(<id>), a line     *)
(* feed, a carriage return with its line feed, a blank, or some other      *)
(* character; two occurrences of the directive text cannot overlap, so     *)
(* every file content has exactly one such reading.  The scripts open the  *)
(* file in text mode: reading turns every line ending into a line feed,    *)
(* writing turns every line feed into os.linesep.                          *)
(* The text of a template file is a sequence whose atoms are placeholder   *)
(* tokens or other characters; so is the value of an attribute.            *)
(***************************************************************************)
EXTENDS Integers, Sequences, FiniteSets, TLC

VARIABLES dirs, cmake, template, linesep, last, pc, batch, demo

vars == <<dirs, cmake, template, linesep, last, pc, batch, demo>>

\* ------------------------------------------------------------------ bounds
\* longest CMakeLists.txt content (in atoms) a behaviour of Spec starts from
MaxInitLen == 1
\* longest CMakeLists.txt content (in atoms) SpecRegistry starts from
MaxRegLen == 4
\* longest string handed to validate_module_id in SpecValidate
MaxIdLen == 5
\* longest text (in atoms) of the template file SpecSubstitute draws
MaxTextLen == 2

\* -------------------------------------------------------------- characters
\* "Dz" is U+01C5, a titlecase letter whose uppercase is U+01C4 ("DZ");
\* "2" stands for a digit, "_" for a character that is not alphanumeric.
UpperLetters == {"A", "B", "C", "D", "E", "G", "I", "M", "N", "O", "R", "S", "T", "V", "DZ"}
LowerLetters == {"a", "b", "c", "g", "i", "m", "n", "o", "t"}
TitleLetters == {"Dz"}
Digits == {"1", "2"}

char_isalpha(c) == c \in UpperLetters \cup LowerLetters \cup TitleLetters

char_isalnum(c) == char_isalpha(c) \/ c \in Digits

char_upper(c) ==
  CASE c = "a" -> "A"
    [] c = "b" -> "B"
    [] c = "c" -> "C"
    [] c = "g" -> "G"
    [] c = "i" -> "I"
    [] c = "m" -> "M"
    [] c = "n" -> "N"
    [] c = "o" -> "O"
    [] c = "t" -> "T"
    [] c = "Dz" -> "DZ"
    [] OTHER -> c

\* str.isalnum(): every character alphanumeric and at least one character
isalnum(s) == s # <<>> /\ \A i \in 1..Len(s) : char_isalnum(s[i])

\* str.upper()
upper(s) == [i \in 1..Len(s) |-> char_upper(s[i])]

validate_module_id_NoUpperCheck(module_id) ==
  IF module_id = <<>> THEN FALSE
  ELSE IF Len(module_id) # 4 THEN FALSE
  ELSE IF ~isalnum(module_id) THEN FALSE
  ELSE IF ~char_isalpha(module_id[1]) THEN FALSE
  ELSE TRUE

validate_module_id(module_id) ==
  IF module_id = <<>> THEN FALSE
  ELSE IF Len(module_id) # 4 THEN FALSE
  ELSE IF ~isalnum(module_id) THEN FALSE
  ELSE IF ~char_isalpha(module_id[1]) THEN FALSE
  ELSE IF module_id # upper(module_id) THEN FALSE
  ELSE TRUE

\* ------------------------------------------------------------- identifiers
VERB == <<"V", "E", "R", "B">>
TEST == <<"T", "E", "S", "T">>
AB1 == <<"a", "b", "1">>
COMMON == <<"c", "o", "m", "m", "o", "n">>
INC == <<"i", "n", "c">>
DOTGIT == <<".", "g", "i", "t">>

\* identifiers the command lines of this model pass
ModuleIds == {VERB, TEST}
CreateArgs == {VERB, TEST, AB1}
RemoveArgs == {VERB, TEST, COMMON}

\* ------------------------------------------------- text of CMakeLists.txt
\* the text add_subdirectory(<module_id>), as createModule.py:154 and
\* removeModule.py:78 build it
Directive(module_id) == [k |-> "dir", id |-> module_id]
NL == [k |-> "nl", id |-> <<>>]
CRLF == [k |-> "crlf", id |-> <<>>]
SP == [k |-> "sp", id |-> <<>>]
HASH == [k |-> "ch", id |-> <<>>]

IsSpace(a) == a.k \in {"nl", "sp"}

RegAtoms == {Directive(m) : m \in ModuleIds} \cup {NL, CRLF, SP, HASH}

\* os.linesep: "\n" on POSIX, "\r\n" on Windows
LineSeps == {NL, CRLF}

\* what open(file, 'r') hands to read() and readlines(): universal newlines
text_read(bytes) == [i \in 1..Len(bytes) |-> IF bytes[i] = CRLF THEN NL ELSE bytes[i]]

\* what open(file, 'w') or open(file, 'a') puts on disk for the text written
text_write(text, sep) == [i \in 1..Len(text) |-> IF text[i] = NL THEN sep ELSE text[i]]

\* all sequences over S of length at most n
SeqsUpTo(S, n) == UNION {[1..k -> S] : k \in 0..n}

\* index of the first newline of s at or after i, 0 when there is none
RECURSIVE FirstNL(_, _)
FirstNL(s, i) ==
  IF i > Len(s) THEN 0
  ELSE IF s[i] = NL THEN i
  ELSE FirstNL(s, i + 1)

\* file.readlines(): the lines, each with its newline, the last possibly without
RECURSIVE readlines(_)
readlines(s) ==
  IF s = <<>> THEN <<>>
  ELSE LET i == FirstNL(s, 1) IN
       IF i = 0 THEN <<s>>
       ELSE <<SubSeq(s, 1, i)>> \o readlines(SubSeq(s, i + 1, Len(s)))

\* file.writelines(lines): the lines one after the other, nothing added
RECURSIVE writelines(_)
writelines(lines) ==
  IF lines = <<>> THEN <<>>
  ELSE Head(lines) \o writelines(Tail(lines))

\* str.strip(): leading and trailing whitespace removed
RECURSIVE lstrip(_)
lstrip(s) ==
  IF s # <<>> /\ IsSpace(Head(s)) THEN lstrip(Tail(s)) ELSE s

RECURSIVE rstrip(_)
rstrip(s) ==
  IF s # <<>> /\ IsSpace(s[Len(s)]) THEN rstrip(SubSeq(s, 1, Len(s) - 1)) ELSE s

strip(s) == rstrip(lstrip(s))

\* Python's `add_line in content`: the text occurs somewhere in the content
Contains(content, module_id) ==
  \E i \in 1..Len(content) : content[i] = Directive(module_id)

\* [line for line in lines if line.strip() != target.strip()]
RECURSIVE LinesNotMatching(_, _)
LinesNotMatching(lines, target) ==
  IF lines = <<>> THEN <<>>
  ELSE (IF strip(Head(lines)) # strip(target) THEN <<Head(lines)>> ELSE <<>>)
       \o LinesNotMatching(Tail(lines), target)

\* the registry file: present or not, and its text
File(content) == [exists |-> TRUE, content |-> content]
NoFile == [exists |-> FALSE, content |-> <<>>]

\* update_modules_cmake without the test of line 155
update_modules_cmake_NoCheck(file, module_id, sep) ==
  IF ~file.exists THEN [exit |-> 1, cmake |-> file]
  ELSE [exit |-> 0,
        cmake |-> File(file.content
                         \o text_write(<<Directive(module_id), NL>>, sep))]

\* update_modules_cmake: [exit, cmake]; exit 1 is sys.exit(1), exit 0 a return
update_modules_cmake(file, module_id, sep) ==
  IF ~file.exists THEN [exit |-> 1, cmake |-> file]
  ELSE LET content == text_read(file.content) IN
       IF Contains(content, module_id)
       THEN [exit |-> 0, cmake |-> file]
       ELSE [exit |-> 0,
             cmake |-> File(file.content
                              \o text_write(<<Directive(module_id), NL>>, sep))]

\* remove_from_cmake: [ret, cmake]; io is TRUE when reading the file raises
remove_from_cmake_NoStrip(file, module_id, sep, io) ==
  IF ~file.exists THEN [ret |-> FALSE, cmake |-> file]
  ELSE IF io THEN [ret |-> FALSE, cmake |-> file]
  ELSE LET lines == readlines(text_read(file.content))
           kept == SelectSeq(lines, LAMBDA line : line # <<Directive(module_id), NL>>)
       IN  IF Len(kept) < Len(lines)
           THEN [ret |-> TRUE, cmake |-> File(text_write(writelines(kept), sep))]
           ELSE [ret |-> FALSE, cmake |-> file]

remove_from_cmake(file, module_id, sep, io) ==
  IF ~file.exists THEN [ret |-> FALSE, cmake |-> file]
  ELSE IF io THEN [ret |-> FALSE, cmake |-> file]
  ELSE LET lines == readlines(text_read(file.content))
           target_line == <<Directive(module_id), NL>>
           kept == LinesNotMatching(lines, target_line)
       IN  IF Len(kept) < Len(lines)
           THEN [ret |-> TRUE, cmake |-> File(text_write(writelines(kept), sep))]
           ELSE [ret |-> FALSE, cmake |-> file]

\* ------------------------------------------------------- template and files
TextFile(data) == [text |-> TRUE, data |-> data]
BinaryFile(data) == [text |-> FALSE, data |-> data]

\* template/module: one file with placeholders, one that is not UTF-8 text
TemplateModule ==
  [f \in {"Module.cpp", "icon.png"} |->
     IF f = "Module.cpp" THEN TextFile(<<"__MOD__", "x", "__NAME__">>)
     ELSE BinaryFile(<<"__MOD__">>)]

\* the optional command-line arguments; <<>> is an option not given
NoArgs ==
  [name |-> <<>>, description |-> <<>>, brand |-> <<>>, author |-> <<>>,
   email |-> <<>>, website |-> <<>>]
NameArgs == [NoArgs EXCEPT !.name = <<"n">>, !.author = <<"u">>]
ArgSets == {NoArgs, NameArgs}

Or(a, b) == IF a # <<>> THEN a ELSE b

\* collect_module_info, non-interactive branch: the substitutions, in the
\* order of the dict
collect_module_info(module_id, args) ==
  << [tok |-> "__MOD__", val |-> module_id],
     [tok |-> "__NAME__", val |-> Or(args.name, module_id)],
     [tok |-> "__DESCRIPTION__",
      val |-> Or(args.description, Or(args.name, module_id))],
     [tok |-> "__BRAND__", val |-> Or(args.brand, <<"YourBrand">>)],
     [tok |-> "__AUTHOR__", val |-> Or(args.author, <<"Unknown">>)],
     [tok |-> "__EMAIL__", val |-> Or(args.email, <<"unknown@example.com">>)],
     [tok |-> "__URL__", val |-> Or(args.website, <<"https://example.com">>)] >>

\* str.replace(placeholder, value, 1): the first occurrence only
replace_FirstOnly(content, placeholder, value) ==
  IF \E i \in 1..Len(content) : content[i] = placeholder
  THEN LET i == CHOOSE i \in 1..Len(content) :
                  /\ content[i] = placeholder
                  /\ \A j \in 1..(i - 1) : content[j] # placeholder
       IN  SubSeq(content, 1, i - 1) \o value \o SubSeq(content, i + 1, Len(content))
  ELSE content

\* str.replace(placeholder, value)
RECURSIVE replace(_, _, _)
replace(content, placeholder, value) ==
  IF content = <<>> THEN <<>>
  ELSE (IF Head(content) = placeholder THEN value ELSE <<Head(content)>>)
       \o replace(Tail(content), placeholder, value)

\* the loop of substitute_in_file over substitutions.items()
RECURSIVE substitute_all(_, _)
substitute_all(content, substitutions) ==
  IF substitutions = <<>> THEN content
  ELSE substitute_all(
         replace(content, Head(substitutions).tok, Head(substitutions).val),
         Tail(substitutions))

\* substitute_in_file without the except clause for UnicodeDecodeError, on a
\* decoder that accepts every byte
substitute_in_file_NoSkip(file, substitutions, io) ==
  IF io = "read" THEN file
  ELSE IF io = "write" THEN [file EXCEPT !.data = <<>>]
  ELSE [file EXCEPT !.data = substitute_all(file.data, substitutions)]

\* substitute_in_file: the file afterwards.  io is the I/O error the call
\* meets: "read" when opening or reading the file raises, "write" when the
\* file was opened for writing, which empties it, and writing raises.  Both
\* are caught; so is the UnicodeDecodeError of a file that is not UTF-8 text.
substitute_in_file(file, substitutions, io) ==
  IF io = "read" THEN file
  ELSE IF ~file.text THEN file
  ELSE IF io = "write" THEN TextFile(<<>>)
  ELSE TextFile(substitute_all(file.data, substitutions))

\* a module directory: its files and whether <id>-rnbo exists in it
Tree(files, rnbo) == [files |-> files, rnbo |-> rnbo]

Restrict(f, S) == [x \in S |-> f[x]]

\* outcomes of a failing shutil.copytree: nothing created, or the tree with
\* some of the files missing
CopyFailures(tmpl) ==
  {[root |-> FALSE, files |-> {}]}
    \cup {[root |-> TRUE, files |-> S] : S \in (SUBSET DOMAIN tmpl) \ {DOMAIN tmpl}}

\* faults of one run of createModule.py.  kind is the step that meets an I/O
\* error and files are the files that step still gets done: copied by a
\* failing copytree, or substituted without error; trunc tells a failing
\* substitution left its file emptied.  "registry" is an error raised by
\* opening or reading CMakeLists.txt.
NoFault(tmpl) ==
  [kind |-> "none", root |-> TRUE, files |-> DOMAIN tmpl, trunc |-> FALSE]

\* the I/O errors of the substitution, file by file
SubstituteFaults(tmpl) ==
  {[kind |-> "subst", root |-> TRUE, files |-> S, trunc |-> t] :
     S \in (SUBSET DOMAIN tmpl) \ {DOMAIN tmpl}, t \in BOOLEAN}

\* the faults Spec injects: of the substitution, only the one where no file
\* can be read
CreateFaults(tmpl) ==
  {NoFault(tmpl)}
    \cup {[kind |-> "copy", root |-> c.root, files |-> c.files, trunc |-> FALSE] :
            c \in CopyFailures(tmpl)}
    \cup {[kind |-> "subst", root |-> TRUE, files |-> {}, trunc |-> FALSE]}
    \cup {[kind |-> "registry", root |-> TRUE, files |-> DOMAIN tmpl, trunc |-> FALSE]}

\* the I/O error substitute_in_file meets on file f
SubstError(fault, f) ==
  IF fault.kind = "subst" /\ f \notin fault.files
  THEN (IF fault.trunc THEN "write" ELSE "read")
  ELSE "none"

\* copy_and_substitute with a substitute_in_file that lets the I/O error
\* through: the files are left as copied and the run ends
copy_and_substitute_StopAtError(tmpl, ds, module_id, substitutions, fault) ==
  IF module_id \in DOMAIN ds THEN [exit |-> 1, dirs |-> ds]
  ELSE IF fault.kind = "subst"
  THEN [exit |-> 1,
        dirs |-> [d \in DOMAIN ds \cup {module_id} |->
                    IF d = module_id THEN Tree(tmpl, TRUE) ELSE ds[d]]]
  ELSE [exit |-> 0,
        dirs |-> [d \in DOMAIN ds \cup {module_id} |->
                    IF d = module_id
                    THEN Tree([f \in DOMAIN tmpl |->
                                 substitute_in_file(tmpl[f], substitutions, "none")],
                              TRUE)
                    ELSE ds[d]]]

\* copy_and_substitute: [exit, dirs]; exit 0 is a normal return
copy_and_substitute_Overwrite(tmpl, ds, module_id, substitutions, fault) ==
  IF fault.kind = "copy"
  THEN [exit |-> 1,
        dirs |-> IF fault.root
                 THEN [d \in DOMAIN ds \cup {module_id} |->
                         IF d = module_id
                         THEN Tree(Restrict(tmpl, fault.files), FALSE)
                         ELSE ds[d]]
                 ELSE ds]
  ELSE [exit |-> 0,
        dirs |-> [d \in DOMAIN ds \cup {module_id} |->
                    IF d = module_id
                    THEN Tree([f \in DOMAIN tmpl |->
                                 substitute_in_file(tmpl[f], substitutions,
                                                    SubstError(fault, f))],
                              TRUE)
                    ELSE ds[d]]]

copy_and_substitute(tmpl, ds, module_id, substitutions, fault) ==
  IF module_id \in DOMAIN ds THEN [exit |-> 1, dirs |-> ds]
  ELSE IF fault.kind = "copy"
  THEN [exit |-> 1,
        dirs |-> IF fault.root
                 THEN [d \in DOMAIN ds \cup {module_id} |->
                         IF d = module_id
                         THEN Tree(Restrict(tmpl, fault.files), FALSE)
                         ELSE ds[d]]
                 ELSE ds]
  ELSE [exit |-> 0,
        dirs |-> [d \in DOMAIN ds \cup {module_id} |->
                    IF d = module_id
                    THEN Tree([f \in DOMAIN tmpl |->
                                 substitute_in_file(tmpl[f], substitutions,
                                                    SubstError(fault, f))],
                              TRUE)
                    ELSE ds[d]]]

\* createModule.py main with the result of the validation ignored
createModule_main_NoValidate(tmpl, ds, file, sep, module_id, args, fault) ==
  LET substitutions == collect_module_info(module_id, args)
      c == copy_and_substitute(tmpl, ds, module_id, substitutions, fault)
  IN  IF c.exit # 0
      THEN [exit |-> 1,
            out |-> IF module_id \in DOMAIN ds THEN "already exists"
                    ELSE "traceback",
            fault |-> IF module_id \in DOMAIN ds THEN "none" ELSE "copy",
            dirs |-> c.dirs, cmake |-> file]
      ELSE LET u == update_modules_cmake(file, module_id, sep)
           IN  [exit |-> u.exit,
                out |-> IF u.exit = 0 THEN "created" ELSE "no CMakeLists.txt",
                fault |-> "none",
                dirs |-> c.dirs, cmake |-> u.cmake]

\* createModule.py main deleting modules/<id> again when the registry step
\* fails
createModule_main_Rollback(tmpl, ds, file, sep, module_id, args, fault) ==
  LET m == createModule_main_NoValidate(tmpl, ds, file, sep, module_id, args, fault)
  IN  IF ~validate_module_id(module_id)
      THEN [exit |-> 1, out |-> "invalid id", fault |-> "none",
            dirs |-> ds, cmake |-> file]
      ELSE IF m.exit # 0 /\ (~file.exists \/ fault.kind = "registry")
      THEN [m EXCEPT !.dirs = ds,
                     !.out = IF file.exists THEN "traceback" ELSE "no CMakeLists.txt",
                     !.fault = IF file.exists THEN "registry" ELSE m.fault]
      ELSE m

\* createModule.py main, with module_id given on the command line:
\* [exit, out, fault, dirs, cmake].  out names the message the run ends with
\* (an exception nobody catches ends the run with a traceback and exit 1),
\* fault the injected fault the run met ("none" when it ended before).
\* template/module and modules/ exist, so the checks of lines 218-224 pass.
createModule_main(tmpl, ds, file, sep, module_id, args, fault) ==
  IF ~validate_module_id(module_id)
  THEN [exit |-> 1, out |-> "invalid id", fault |-> "none",
        dirs |-> ds, cmake |-> file]
  ELSE LET substitutions == collect_module_info(module_id, args)
           c == copy_and_substitute(tmpl, ds, module_id, substitutions, fault)
       IN  IF c.exit # 0
           THEN [exit |-> 1,
                 out |-> IF module_id \in DOMAIN ds THEN "already exists"
                         ELSE "traceback",
                 fault |-> IF module_id \in DOMAIN ds THEN "none" ELSE "copy",
                 dirs |-> c.dirs, cmake |-> file]
           ELSE IF file.exists /\ fault.kind = "registry"
           THEN [exit |-> 1, out |-> "traceback", fault |-> "registry",
                 dirs |-> c.dirs, cmake |-> file]
           ELSE LET u == update_modules_cmake(file, module_id, sep)
                IN  [exit |-> u.exit,
                     out |-> IF u.exit = 0 THEN "created" ELSE "no CMakeLists.txt",
                     fault |-> IF fault.kind = "subst" THEN "subst" ELSE "none",
                     dirs |-> c.dirs, cmake |-> u.cmake]

\* ------------------------------------------------------------ removeModule
Reserved == {COMMON, INC, DOTGIT}

\* the characters of the names under modules/, in the order of their code
\* points
CodePoints ==
  <<".", "1", "2", "A", "B", "C", "E", "G", "I", "L", "M", "N", "O", "R", "S",
    "T", "V", "_", "a", "b", "c", "e", "g", "i", "k", "m", "n", "o", "s", "t",
    "x", "DZ", "Dz">>

Code(c) == CHOOSE i \in 1..Len(CodePoints) : CodePoints[i] = c

\* a < b for two strings
RECURSIVE StrLess(_, _)
StrLess(a, b) ==
  IF b = <<>> THEN FALSE
  ELSE IF a = <<>> THEN TRUE
  ELSE IF Head(a) = Head(b) THEN StrLess(Tail(a), Tail(b))
  ELSE Code(Head(a)) < Code(Head(b))

\* sorted(modules), of names that are all different
RECURSIVE sorted(_)
sorted(S) ==
  IF S = {} THEN <<>>
  ELSE LET m == CHOOSE x \in S : \A y \in S \ {x} : StrLess(x, y)
       IN  <<m>> \o sorted(S \ {m})

\* modules_dir.iterdir(): the entries of modules/, the module directories and
\* the file CMakeLists.txt, each with the answer of is_dir()
CMAKELISTS == <<"C", "M", "a", "k", "e", "L", "i", "s", "t", "s", ".", "t", "x", "t">>

iterdir(ds, file) ==
  {[name |-> d, is_dir |-> TRUE] : d \in DOMAIN ds}
    \cup (IF file.exists THEN {[name |-> CMAKELISTS, is_dir |-> FALSE]} ELSE {})

\* list_available_modules without the test of is_dir()
list_available_modules_NoDirCheck(entries) ==
  sorted({item.name : item \in {x \in entries : x.name \notin Reserved}})

\* list_available_modules (the same function in removeModule.py and in
\* removeAll.py)
list_available_modules(entries) ==
  sorted({item.name : item \in {x \in entries : x.is_dir /\ x.name \notin Reserved}})

\* faults of one run of removeModule.py: reading CMakeLists.txt raises, or
\* shutil.rmtree raises, and then emptied says what is left of the tree: all
\* of it (the first unlink failed) or its emptied root (the last rmdir failed)
RemoveFaults ==
  {[kind |-> k, emptied |-> FALSE] : k \in {"none", "cmake"}}
    \cup {[kind |-> "rmtree", emptied |-> b] : b \in BOOLEAN}

\* remove_module_directory: [ret, dirs]
remove_module_directory_Keep(ds, module_id, fault) ==
  [ret |-> module_id \in DOMAIN ds /\ fault.kind # "rmtree", dirs |-> ds]

remove_module_directory(ds, module_id, fault) ==
  IF module_id \in DOMAIN ds
  THEN IF fault.kind = "rmtree"
       THEN [ret |-> FALSE,
             dirs |-> IF fault.emptied
                      THEN [ds EXCEPT ![module_id] = Tree(Restrict(@.files, {}), FALSE)]
                      ELSE ds]
       ELSE [ret |-> TRUE, dirs |-> Restrict(ds, DOMAIN ds \ {module_id})]
  ELSE [ret |-> FALSE, dirs |-> ds]

\* removeModule.py main without the check that the module directory exists
removeModule_main_NoExistCheck(ds, file, sep, module_id, confirm, fault) ==
  IF ~confirm
  THEN [exit |-> 0, out |-> "cancelled", fault |-> "none",
        dirs |-> ds, cmake |-> file]
  ELSE LET r == remove_from_cmake(file, module_id, sep, fault.kind = "cmake")
           d == remove_module_directory(ds, module_id, fault)
           success == r.ret /\ d.ret
       IN  [exit |-> IF success THEN 0 ELSE 1,
            out |-> IF success THEN "removed" ELSE "partially removed",
            fault |-> "none",
            dirs |-> d.dirs, cmake |-> r.cmake]

\* removeModule.py main leaving the directory alone when the registry step
\* has failed
removeModule_main_StopAtRegistry(ds, file, sep, module_id, confirm, fault) ==
  LET m == removeModule_main_NoExistCheck(ds, file, sep, module_id, confirm, fault)
      r == remove_from_cmake(file, module_id, sep, fault.kind = "cmake")
  IN  IF module_id \notin DOMAIN ds
      THEN [exit |-> 1, out |-> "not found", fault |-> "none",
            dirs |-> ds, cmake |-> file]
      ELSE IF confirm /\ ~r.ret
      THEN [m EXCEPT !.dirs = ds, !.fault = fault.kind]
      ELSE [m EXCEPT !.fault = IF confirm THEN fault.kind ELSE "none"]

\* removeModule.py main, with module_id given on the command line and
\* confirm the answer of confirm_removal (TRUE under --force):
\* [exit, out, fault, dirs, cmake]
removeModule_main(ds, file, sep, module_id, confirm, fault) ==
  IF module_id \notin DOMAIN ds
  THEN [exit |-> 1, out |-> "not found", fault |-> "none",
        dirs |-> ds, cmake |-> file]
  ELSE IF ~confirm
  THEN [exit |-> 0, out |-> "cancelled", fault |-> "none",
        dirs |-> ds, cmake |-> file]
  ELSE LET r == remove_from_cmake(file, module_id, sep, fault.kind = "cmake")
           d == remove_module_directory(ds, module_id, fault)
           success == r.ret /\ d.ret
       IN  [exit |-> IF success THEN 0 ELSE 1,
            out |-> IF success THEN "removed" ELSE "partially removed",
            fault |-> IF fault.kind = "cmake" /\ ~file.exists THEN "none"
                      ELSE fault.kind,
            dirs |-> d.dirs, cmake |-> r.cmake]

\* ------------------------------------------------------------ state machine
\* last is the last run of a script: its command line, the fault injected, its
\* exit code and what it printed
Run(op, id, args, confirm, fault, exit, out) ==
  [op |-> op, id |-> id, args |-> args, confirm |-> confirm,
   fault |-> fault, exit |-> exit, out |-> out]

\* last after a call of one function: its argument and what it returned
Call(op, id, ret) ==
  [op |-> op, id |-> id, args |-> NoArgs, confirm |-> FALSE,
   fault |-> "none", exit |-> IF ret THEN 0 ELSE 1,
   out |-> IF ret THEN "True" ELSE "False"]

\* pc is the position of the script that is running, when its run is followed
\* call by call: the script, its command line, the call of main it is about
\* to make, the local variable success of removeModule.py, and the fault the
\* run has met
Process(op, id, args, step, success, fault) ==
  [op |-> op, id |-> id, args |-> args, step |-> step, success |-> success,
   fault |-> fault]

NoProcess == Process("idle", <<>>, NoArgs, "", TRUE, "none")

\* batch is the run of a batch script (removeAll.py, test.py): the items it
\* goes through, those still to come, the exit code of the subprocess of
\* each item attempted, its two counters, and its exit code once it is done
Batch(op, items, todo, log, success_count, total_count, done, exit) ==
  [op |-> op, items |-> items, todo |-> todo, log |-> log,
   success_count |-> success_count, total_count |-> total_count,
   done |-> done, exit |-> exit]

NoBatch == Batch("idle", <<>>, <<>>, <<>>, 0, 0, TRUE, 0)

\* demo is what addDemo.py works on besides modules/ and the registry: the
\* tree template/Demo/Demo-rnbo it copies from (source), the content of
\* template/module/DEMO-rnbo that createModule.py copies with the rest of the
\* template (seed), and the content of modules/DEMO/DEMO-rnbo (export).
\* A directory content maps the names of its top-level entries to a file
\* with its content, a directory with the contents of the files in it, or
\* an entry that is neither (a dangling link)
FileEntry(data) == [kind |-> "file", data |-> data]
DirEntry(items) == [kind |-> "dir", items |-> items]
OtherEntry == [kind |-> "other"]
NoEntries == <<>>
Demo(source, seed, export) == [source |-> source, seed |-> seed, export |-> export]
NoSource == [exists |-> FALSE, items |-> NoEntries]
NoDemo == Demo(NoSource, NoEntries, NoEntries)

\* modules/common holds the shared sources
CommonTree == Tree(Restrict(TemplateModule, {}), FALSE)

\* a module directory as a faultless createModule.py run leaves it
Created(module_id, args) ==
  copy_and_substitute(TemplateModule, <<>>, module_id,
                      collect_module_info(module_id, args),
                      NoFault(TemplateModule)).dirs[module_id]

InitDirs ==
  {[d \in M \cup {COMMON} |-> IF d = COMMON THEN CommonTree ELSE Created(d, NoArgs)] :
     M \in SUBSET ModuleIds}

\* Spec runs on a POSIX host on files whose line endings are line feeds
InitFiles == {NoFile} \cup {File(c) : c \in SeqsUpTo(RegAtoms \ {CRLF}, MaxInitLen)}

Init ==
  /\ dirs \in InitDirs
  /\ cmake \in InitFiles
  /\ template = TemplateModule
  /\ linesep = NL
  /\ last = Run("init", <<>>, NoArgs, FALSE, "none", 0, "")
  /\ pc = NoProcess
  /\ batch = NoBatch
  /\ demo = NoDemo

\* a fault is injected only into a run that gets to the I/O it breaks
Create(module_id, args, fault) ==
  /\ fault.kind # "none" => validate_module_id(module_id) /\ module_id \notin DOMAIN dirs
  /\ fault.kind = "registry" => cmake.exists
  /\ LET m == createModule_main(template, dirs, cmake, linesep, module_id, args, fault)
     IN /\ dirs' = m.dirs
        /\ cmake' = m.cmake
        /\ last' = Run("create", module_id, args, FALSE, m.fault, m.exit, m.out)
        /\ UNCHANGED <<template, linesep, demo, pc, batch>>

Remove(module_id, confirm, fault) ==
  /\ fault.kind # "none" => confirm /\ module_id \in DOMAIN dirs
  /\ fault.kind = "cmake" => cmake.exists
  /\ LET m == removeModule_main(dirs, cmake, linesep, module_id, confirm, fault)
     IN /\ dirs' = m.dirs
        /\ cmake' = m.cmake
        /\ last' = Run("remove", module_id, NoArgs, confirm, m.fault, m.exit, m.out)
        /\ UNCHANGED <<template, linesep, demo, pc, batch>>

Next ==
  \/ \E module_id \in CreateArgs, args \in ArgSets, fault \in CreateFaults(template) :
       Create(module_id, args, fault)
  \/ \E module_id \in RemoveArgs, confirm \in BOOLEAN, fault \in RemoveFaults :
       Remove(module_id, confirm, fault)

Spec == Init /\ [][Next]_vars

\* ------------------------------------------- validate_module_id on its own
\* the characters SpecValidate builds strings from: an uppercase letter, a
\* lowercase letter, a digit, a character that is not alphanumeric, and the
\* titlecase letter U+01C5
ValChars == {"V", "a", "1", "_", "Dz"}

InitBare ==
  /\ dirs = [d \in {COMMON} |-> CommonTree]
  /\ template = TemplateModule
  /\ pc = NoProcess
  /\ batch = NoBatch
  /\ demo = NoDemo

\* the string to validate is chosen at the start
InitValidate ==
  /\ InitBare
  /\ cmake = File(<<>>)
  /\ linesep = NL
  /\ last \in {Call("input", s, TRUE) : s \in SeqsUpTo(ValChars, MaxIdLen)}

Validate ==
  /\ last.op = "input"
  /\ last' = Call("validate", last.id, validate_module_id(last.id))
  /\ UNCHANGED <<dirs, cmake, template, linesep, demo, pc, batch>>

NextValidate == Validate

SpecValidate == InitValidate /\ [][NextValidate]_vars

\* ------------------------------- the two registry functions on their own
InitRegistry ==
  /\ InitBare
  /\ last = Run("init", <<>>, NoArgs, FALSE, "none", 0, "")
  /\ cmake \in {NoFile} \cup {File(c) : c \in SeqsUpTo(RegAtoms, MaxRegLen)}
  /\ linesep \in LineSeps

RegistryAdd(module_id) ==
  LET u == update_modules_cmake(cmake, module_id, linesep) IN
  /\ cmake' = u.cmake
  /\ last' = Call("add", module_id, u.exit = 0)
  /\ UNCHANGED <<dirs, template, linesep, demo, pc, batch>>

RegistryRemove(module_id) ==
  LET r == remove_from_cmake(cmake, module_id, linesep, FALSE) IN
  /\ cmake' = r.cmake
  /\ last' = Call("remove", module_id, r.ret)
  /\ UNCHANGED <<dirs, template, linesep, demo, pc, batch>>

NextRegistry ==
  \/ \E module_id \in ModuleIds : RegistryAdd(module_id)
  \/ \E module_id \in ModuleIds : RegistryRemove(module_id)

SpecRegistry == InitRegistry /\ [][NextRegistry]_vars

\* ------------------------------------- the substitution, file by file
\* the placeholder tokens, the keys of the dict of collect_module_info
Placeholders ==
  {collect_module_info(<<>>, NoArgs)[k].tok : k \in 1..Len(collect_module_info(<<>>, NoArgs))}

\* attribute values that are themselves placeholder tokens
NameIsBrandToken == [NoArgs EXCEPT !.name = <<"__BRAND__">>]
BrandIsModToken == [NoArgs EXCEPT !.brand = <<"__MOD__">>]
SubstituteArgSets == ArgSets \cup {NameIsBrandToken, BrandIsModToken}

\* the templates of SpecSubstitute: a text file that is drawn, a text file
\* with the tokens the drawn one leaves out, and a file that is not text
SubstituteTemplate(text) ==
  [f \in {"Module.cpp", "Module.h", "icon.png"} |->
     IF f = "Module.cpp" THEN TextFile(text)
     ELSE IF f = "Module.h"
     THEN TextFile(<<"__DESCRIPTION__", "__AUTHOR__", "__EMAIL__", "__URL__">>)
     ELSE BinaryFile(<<"__MOD__", "__NAME__">>)]

InitSubstitute ==
  /\ dirs = [d \in {COMMON} |-> CommonTree]
  /\ cmake = File(<<>>)
  /\ template \in {SubstituteTemplate(text) :
                     text \in SeqsUpTo({"__MOD__", "__NAME__", "__BRAND__", "x"},
                                       MaxTextLen)}
  /\ linesep = NL
  /\ last = Run("init", <<>>, NoArgs, FALSE, "none", 0, "")
  /\ pc = NoProcess
  /\ batch = NoBatch
  /\ demo = NoDemo

NextSubstitute ==
  \E args \in SubstituteArgSets,
     fault \in {NoFault(template)} \cup SubstituteFaults(template) :
    Create(VERB, args, fault)

SpecSubstitute == InitSubstitute /\ [][NextSubstitute]_vars

\* ----------------------------- removeModule.py followed call by call
\* main of removeModule.py, lines 196-216: the call that follows step, where
\* "start" is the confirmation and "summary" the end of main
removeModule_next_DirectoryFirst(step) ==
  CASE step = "start" -> "remove_module_directory"
    [] step = "remove_module_directory" -> "remove_from_cmake"
    [] step = "remove_from_cmake" -> "summary"

removeModule_next(step) ==
  CASE step = "start" -> "remove_from_cmake"
    [] step = "remove_from_cmake" -> "remove_module_directory"
    [] step = "remove_module_directory" -> "summary"

\* main up to "Perform removal": the check that modules/<id> exists and the
\* confirmation
RemoveStart(module_id, confirm) ==
  /\ pc.op = "idle"
  /\ IF module_id \notin DOMAIN dirs
     THEN /\ last' = Run("remove", module_id, NoArgs, confirm, "none", 1, "not found")
          /\ UNCHANGED pc
     ELSE IF ~confirm
     THEN /\ last' = Run("remove", module_id, NoArgs, confirm, "none", 0, "cancelled")
          /\ UNCHANGED pc
     ELSE /\ pc' = Process("remove", module_id, NoArgs, removeModule_next("start"),
                           TRUE, "none")
          /\ UNCHANGED last
  /\ UNCHANGED <<dirs, cmake, template, linesep, demo, batch>>

\* main after a call has returned ret: success is cleared when ret is false
\* and, after the last call, the summary is printed and the script exits
RemoveReturn(ret, fault) ==
  LET success == pc.success /\ ret
      next == removeModule_next(pc.step)
      met == IF fault # "none" THEN fault ELSE pc.fault
  IN  IF next = "summary"
      THEN /\ last' = Run("remove", pc.id, NoArgs, TRUE, met,
                          IF success THEN 0 ELSE 1,
                          IF success THEN "removed" ELSE "partially removed")
           /\ pc' = NoProcess
      ELSE /\ pc' = Process("remove", pc.id, NoArgs, next, success, met)
           /\ UNCHANGED last

\* the call of remove_from_cmake; io is TRUE when reading the file raises
RemoveFromCmake(io) ==
  /\ pc.op = "remove" /\ pc.step = "remove_from_cmake"
  /\ io => cmake.exists
  /\ LET r == remove_from_cmake(cmake, pc.id, linesep, io)
     IN  /\ cmake' = r.cmake
         /\ RemoveReturn(r.ret, IF io THEN "cmake" ELSE "none")
  /\ UNCHANGED <<dirs, template, linesep, demo, batch>>

\* the call of remove_module_directory
RemoveDirectory(fault) ==
  /\ pc.op = "remove" /\ pc.step = "remove_module_directory"
  /\ fault.kind \in {"none", "rmtree"}
  /\ fault.kind = "rmtree" => pc.id \in DOMAIN dirs
  /\ LET d == remove_module_directory(dirs, pc.id, fault)
     IN  /\ dirs' = d.dirs
         /\ RemoveReturn(d.ret, fault.kind)
  /\ UNCHANGED <<cmake, template, linesep, demo, batch>>

NextSteps ==
  \/ \E module_id \in RemoveArgs, confirm \in BOOLEAN : RemoveStart(module_id, confirm)
  \/ \E io \in BOOLEAN : RemoveFromCmake(io)
  \/ \E fault \in RemoveFaults : RemoveDirectory(fault)

SpecSteps == Init /\ [][NextSteps]_vars

\* ------------------------------------- the batch scripts removeAll, test
\* the result of subprocess.run for one item: ran is FALSE when it raised
\* (and then there is no return code; the field is not looked at)
Result(ran, returncode) == [ran |-> ran, returncode |-> returncode]

Attempt(id, result) ==
  [id |-> id, ran |-> result.ran, returncode |-> result.returncode]

\* the state of a batch after the last turn of its loop: the summary and the
\* exit code of the script
batch_end(b) ==
  IF b.todo = <<>>
  THEN [b EXCEPT !.done = TRUE,
                 !.exit = IF b.success_count = b.total_count THEN 0 ELSE 1]
  ELSE b

\* remove_all_modules giving up at the first module that is not removed
remove_all_modules_FailFast(b, result) ==
  IF result.ran /\ result.returncode = 0
  THEN batch_end([b EXCEPT !.todo = Tail(@),
                           !.log = Append(@, Attempt(Head(b.todo), result)),
                           !.success_count = @ + 1])
  ELSE batch_end([b EXCEPT !.todo = <<>>,
                           !.log = Append(@, Attempt(Head(b.todo), result))])

\* one turn of the loop of remove_all_modules, for the first module of
\* b.todo, given what subprocess.run did
remove_all_modules(b, result) ==
  batch_end([b EXCEPT !.todo = Tail(@),
                      !.log = Append(@, Attempt(Head(b.todo), result)),
                      !.success_count =
                         IF result.ran /\ result.returncode = 0 THEN @ + 1 ELSE @])

\* create_test_module: what it returns
create_test_module(result) == result.ran /\ result.returncode = 0

\* one turn of the loop of main of test.py
test_main(b, result) ==
  batch_end([b EXCEPT !.todo = Tail(@),
                      !.log = Append(@, Attempt(Head(b.todo), result)),
                      !.success_count =
                         IF create_test_module(result) THEN @ + 1 ELSE @])

\* test_modules of test.py; an attribute value is one atom
test_modules ==
  << [id |-> TEST,
      args |-> [name |-> <<"Test Module">>,
                description |-> <<"Basic test module for development">>,
                brand |-> <<"TestBrand">>,
                author |-> <<"Test Developer">>,
                email |-> <<"test@example.com">>,
                website |-> <<"https://test.example.com">>]],
     [id |-> VERB,
      args |-> [name |-> <<"Reverb Effect">>,
                description |-> <<"Digital reverb processor with multiple algorithms">>,
                brand |-> <<"AudioDev">>,
                author |-> <<"Audio Engineer">>,
                email |-> <<"audio@example.com">>,
                website |-> <<"https://audiodev.example.com">>]] >>

TestIds == [i \in 1..Len(test_modules) |-> test_modules[i].id]

TestArgs(id) ==
  test_modules[CHOOSE i \in 1..Len(test_modules) : test_modules[i].id = id].args

\* modules/ holds common, with or without inc and .git, and some modules
InitBatch ==
  /\ dirs \in {[d \in M \cup R |->
                  IF d \in Reserved THEN CommonTree ELSE Created(d, NoArgs)] :
                 M \in SUBSET ModuleIds, R \in {{COMMON}, Reserved}}
  /\ cmake \in InitFiles
  /\ template = TemplateModule
  /\ linesep = NL
  /\ last = Run("init", <<>>, NoArgs, FALSE, "none", 0, "")
  /\ pc = NoProcess
  /\ batch = NoBatch
  /\ demo = NoDemo

\* removeAll.py main up to the call of remove_all_modules; confirm is the
\* answer of confirm_removal (TRUE under --force)
RemoveAllBegin(confirm) ==
  /\ batch.done
  /\ LET available_modules == list_available_modules(iterdir(dirs, cmake))
     IN  batch' =
           IF available_modules = <<>>
           THEN Batch("removeAll", <<>>, <<>>, <<>>, 0, 0, TRUE, 0)
           ELSE IF ~confirm
           THEN Batch("removeAll cancelled", available_modules, <<>>, <<>>,
                      0, 0, TRUE, 0)
           ELSE Batch("removeAll", available_modules, available_modules, <<>>,
                      0, Len(available_modules), FALSE, 0)
  /\ UNCHANGED <<dirs, cmake, template, linesep, demo, last, pc>>

\* one turn of the loop of remove_all_modules: removeModule.py <module>
\* --force runs as a subprocess, or subprocess.run raises
RemoveAllItem(fault, raised) ==
  /\ batch.op = "removeAll" /\ ~batch.done
  /\ raised => fault.kind = "none"
  /\ fault.kind # "none" => Head(batch.todo) \in DOMAIN dirs
  /\ fault.kind = "cmake" => cmake.exists
  /\ IF raised
     THEN /\ batch' = remove_all_modules(batch, Result(FALSE, 0))
          /\ UNCHANGED <<dirs, cmake, last>>
     ELSE LET m == removeModule_main(dirs, cmake, linesep, Head(batch.todo),
                                     TRUE, fault)
          IN  /\ dirs' = m.dirs
              /\ cmake' = m.cmake
              /\ last' = Run("remove", Head(batch.todo), NoArgs, TRUE,
                             m.fault, m.exit, m.out)
              /\ batch' = remove_all_modules(batch, Result(TRUE, m.exit))
  /\ UNCHANGED <<template, linesep, demo, pc>>

\* test.py main up to its loop
TestBegin ==
  /\ batch.done
  /\ batch' = Batch("test", TestIds, TestIds, <<>>, 0, Len(test_modules), FALSE, 0)
  /\ UNCHANGED <<dirs, cmake, template, linesep, demo, last, pc>>

\* one turn of the loop of main of test.py: create_test_module runs
\* createModule.py as a subprocess, or subprocess.run raises
TestItem(fault, raised) ==
  /\ batch.op = "test" /\ ~batch.done
  /\ raised => fault.kind = "none"
  /\ fault.kind # "none" => Head(batch.todo) \notin DOMAIN dirs
  /\ fault.kind = "registry" => cmake.exists
  /\ IF raised
     THEN /\ batch' = test_main(batch, Result(FALSE, 0))
          /\ UNCHANGED <<dirs, cmake, last>>
     ELSE LET module_id == Head(batch.todo)
              m == createModule_main(template, dirs, cmake, linesep, module_id,
                                     TestArgs(module_id), fault)
          IN  /\ dirs' = m.dirs
              /\ cmake' = m.cmake
              /\ last' = Run("create", module_id, TestArgs(module_id), FALSE,
                             m.fault, m.exit, m.out)
              /\ batch' = test_main(batch, Result(TRUE, m.exit))
  /\ UNCHANGED <<template, linesep, demo, pc>>

NextBatch ==
  \/ \E confirm \in BOOLEAN : RemoveAllBegin(confirm)
  \/ \E fault \in RemoveFaults, raised \in BOOLEAN : RemoveAllItem(fault, raised)
  \/ TestBegin
  \/ \E fault \in CreateFaults(template), raised \in BOOLEAN : TestItem(fault, raised)

SpecBatch == InitBatch /\ [][NextBatch]_vars

\* ------------------------- two processes on the same modules directory
\* removeModule.py is followed through the two accesses remove_from_cmake
\* makes to CMakeLists.txt (lines 73-75 read it, lines 86-88 write it, and no
\* lock is held between them), while a second process runs createModule.py;
\* the lines read are kept in the field lines of pc until they are written

\* remove_from_cmake, lines 69-75: the lines read from the file
remove_from_cmake_read(file) == readlines(text_read(file.content))

\* remove_from_cmake writing the lines of the file as it is when it writes
remove_from_cmake_write_Reread(lines, module_id, sep, file) ==
  LET now == IF file.exists THEN remove_from_cmake_read(file) ELSE lines
      kept == LinesNotMatching(now, <<Directive(module_id), NL>>)
  IN  IF Len(LinesNotMatching(lines, <<Directive(module_id), NL>>)) < Len(lines)
      THEN [ret |-> TRUE, cmake |-> File(text_write(writelines(kept), sep))]
      ELSE [ret |-> FALSE, cmake |-> file]

\* remove_from_cmake, lines 77-92: the lines held in memory are filtered and,
\* when one was dropped, written over the file
remove_from_cmake_write(lines, module_id, sep, file) ==
  LET target_line == <<Directive(module_id), NL>>
      kept == LinesNotMatching(lines, target_line)
  IN  IF Len(kept) < Len(lines)
      THEN [ret |-> TRUE, cmake |-> File(text_write(writelines(kept), sep))]
      ELSE [ret |-> FALSE, cmake |-> file]

\* the position of removeModule.py between the read and the write
Holding(p, lines) ==
  [op |-> p.op, id |-> p.id, args |-> p.args, step |-> p.step,
   success |-> p.success, fault |-> p.fault, lines |-> lines]

IsHolding(p) == "lines" \in DOMAIN p

\* lines 69-75: the file is missing (and the function returns False) or its
\* lines are read
ReadRegistry ==
  /\ pc.op = "remove" /\ pc.step = "remove_from_cmake" /\ ~IsHolding(pc)
  /\ IF ~cmake.exists
     THEN RemoveReturn(FALSE, "none")
     ELSE /\ pc' = Holding(pc, remove_from_cmake_read(cmake))
          /\ UNCHANGED last
  /\ UNCHANGED <<dirs, cmake, template, linesep, demo, batch>>

\* lines 77-92
WriteRegistry ==
  /\ pc.op = "remove" /\ pc.step = "remove_from_cmake" /\ IsHolding(pc)
  /\ LET w == remove_from_cmake_write(pc.lines, pc.id, linesep, cmake)
     IN  /\ cmake' = w.cmake
         /\ RemoveReturn(w.ret, "none")
  /\ UNCHANGED <<dirs, template, linesep, demo, batch>>

\* a run of createModule.py by the other process, at any point of the removal
ConcurrentCreate(module_id) ==
  LET m == createModule_main(template, dirs, cmake, linesep, module_id, NoArgs,
                             NoFault(template))
  IN  /\ dirs' = m.dirs
      /\ cmake' = m.cmake
      /\ last' = Run("create", module_id, NoArgs, FALSE, m.fault, m.exit, m.out)
      /\ UNCHANGED <<template, linesep, demo, pc, batch>>

NextConcurrent ==
  \/ \E module_id \in ModuleIds : RemoveStart(module_id, TRUE)
  \/ ReadRegistry
  \/ WriteRegistry
  \/ RemoveDirectory([kind |-> "none", emptied |-> FALSE])
  \/ \E module_id \in ModuleIds : ConcurrentCreate(module_id)

SpecConcurrent == Init /\ [][NextConcurrent]_vars

\* ------------------------------------------------------------ addDemo.py
DEMO == <<"D", "E", "M", "O">>

\* create_demo_module, lines 35-44: the command line of createModule.py
DemoArgs ==
  [name |-> <<"Demo Module">>,
   description |-> <<"Demo module with example RNBO patch">>,
   brand |-> <<"Example">>, author |-> <<"Example Team">>,
   email |-> <<"info@example.com">>, website |-> <<"https://example.com">>]

Put(items, n, e) == [k \in DOMAIN items \cup {n} |-> IF k = n THEN e ELSE items[k]]

\* copy_demo_rnbo_code, lines 83-92, for the one item named n: ok is FALSE
\* when the copy raises.  shutil.copy2 onto a directory copies the file into
\* it under the same name; shutil.rmtree of something that is not a
\* directory raises
copy_item(n, item, export) ==
  IF item.kind = "file"
  THEN IF n \in DOMAIN export /\ export[n].kind = "dir"
       THEN [ok |-> TRUE,
             export |-> Put(export, n, DirEntry(Put(export[n].items, n, item.data)))]
       ELSE [ok |-> TRUE, export |-> Put(export, n, item)]
  ELSE IF item.kind = "dir"
  THEN IF n \in DOMAIN export /\ export[n].kind # "dir"
       THEN [ok |-> FALSE, export |-> export]
       ELSE [ok |-> TRUE, export |-> Put(export, n, item)]
  ELSE [ok |-> TRUE, export |-> export]

\* the loop of lines 82-92 over the items in the order iterdir gives them,
\* from the i-th on; copying the fault_at-th item raises an I/O error
RECURSIVE copy_items(_, _, _, _, _)
copy_items(order, i, items, export, fault_at) ==
  IF i > Len(order) THEN [ret |-> TRUE, export |-> export]
  ELSE IF fault_at = i THEN [ret |-> FALSE, export |-> export]
  ELSE LET c == copy_item(order[i], items[order[i]], export)
       IN  IF c.ok THEN copy_items(order, i + 1, items, c.export, fault_at)
           ELSE [ret |-> FALSE, export |-> c.export]

\* copy_demo_rnbo_code: [ret, export]; rnbo is whether modules/DEMO/DEMO-rnbo
\* exists
copy_demo_rnbo_code(source, rnbo, export, order, fault_at) ==
  IF ~source.exists THEN [ret |-> FALSE, export |-> export]
  ELSE IF ~rnbo THEN [ret |-> FALSE, export |-> export]
  ELSE copy_items(order, 1, source.items, export, fault_at)

\* the content of modules/DEMO/DEMO-rnbo after createModule.py or
\* removeModule.py has turned the module directories from ds into ds2: the
\* copy of template/module brings its DEMO-rnbo with it, a removal (even
\* one that fails having emptied the directory) takes the content away
export_after(ds, ds2, dm) ==
  IF DEMO \notin DOMAIN ds2 THEN NoEntries
  ELSE IF DEMO \notin DOMAIN ds
  THEN IF ds2[DEMO].rnbo THEN dm.seed ELSE NoEntries
  ELSE IF ds2[DEMO] = ds[DEMO] THEN dm.export
  ELSE NoEntries

\* main of addDemo.py, lines 168-207: [exit, out, dirs, cmake, export].
\* rres and cres are the results of the two subprocess.run calls (ran is
\* FALSE when the call raises), rfault and cfault the faults the scripts
\* they run meet
addDemo_main(tmpl, ds, file, sep, dm, force, rfault, cfault, rran, cran, order, fault_at) ==
  IF DEMO \in DOMAIN ds /\ ~force
  THEN [exit |-> 1, out |-> "already exists", dirs |-> ds, cmake |-> file,
        export |-> dm.export]
  ELSE IF DEMO \in DOMAIN ds /\ ~rran
  THEN [exit |-> 1, out |-> "remove failed", dirs |-> ds, cmake |-> file,
        export |-> dm.export]
  ELSE LET r == IF DEMO \in DOMAIN ds
                THEN removeModule_main(ds, file, sep, DEMO, TRUE, rfault)
                ELSE [exit |-> 0, dirs |-> ds, cmake |-> file]
           rexport == export_after(ds, r.dirs, dm)
       IN  IF r.exit # 0
           THEN [exit |-> 1, out |-> "remove failed", dirs |-> r.dirs,
                 cmake |-> r.cmake, export |-> rexport]
           ELSE IF ~cran
           THEN [exit |-> 1, out |-> "create failed", dirs |-> r.dirs,
                 cmake |-> r.cmake, export |-> rexport]
           ELSE LET c == createModule_main(tmpl, r.dirs, r.cmake, sep, DEMO,
                                           DemoArgs, cfault)
                    cexport == export_after(r.dirs, c.dirs, dm)
                IN  IF c.exit # 0
                    THEN [exit |-> 1, out |-> "create failed", dirs |-> c.dirs,
                          cmake |-> c.cmake, export |-> cexport]
                    ELSE LET p == copy_demo_rnbo_code(dm.source, c.dirs[DEMO].rnbo,
                                                      cexport, order, fault_at)
                         IN  [exit |-> IF p.ret THEN 0 ELSE 1,
                              out |-> IF p.ret THEN "success" ELSE "copy failed",
                              dirs |-> c.dirs, cmake |-> c.cmake,
                              export |-> p.export]

\* the names of the entries of the two trees, and their contents: what comes
\* from template/Demo/Demo-rnbo holds "src", what comes from template/module
\* holds "old"
ItemNames == {"patch.json", "deps"}

Entries(data) ==
  {FileEntry(data), DirEntry([n \in {"x.h"} |-> data])}

Trees(kinds) ==
  UNION {[S -> kinds] : S \in SUBSET ItemNames}

Sources ==
  {NoSource} \cup {[exists |-> TRUE, items |-> t] :
                     t \in Trees(Entries("src") \cup {OtherEntry})}

Seeds == Trees(Entries("old"))

Orders(S) ==
  {o \in [1..Cardinality(S) -> S] : \A i, j \in 1..Cardinality(S) : o[i] = o[j] => i = j}

DemoRemoveFaults == RemoveFaults

DemoCreateFaults(tmpl) ==
  {NoFault(tmpl), [kind |-> "registry", root |-> TRUE, files |-> DOMAIN tmpl, trunc |-> FALSE],
   [kind |-> "copy", root |-> TRUE, files |-> {}, trunc |-> FALSE]}

InitDemo ==
  /\ template = TemplateModule
  /\ linesep = NL
  /\ last = Run("init", <<>>, NoArgs, FALSE, "none", 0, "")
  /\ pc = NoProcess
  /\ batch = NoBatch
  /\ cmake \in {NoFile, File(<<>>), File(<<Directive(DEMO), NL>>)}
  /\ \E source \in Sources, seed \in Seeds, present \in BOOLEAN :
       /\ dirs = [d \in {COMMON} \cup (IF present THEN {DEMO} ELSE {}) |->
                    IF d = COMMON THEN CommonTree ELSE Created(DEMO, DemoArgs)]
       /\ demo = Demo(source, seed, IF present THEN seed ELSE NoEntries)

AddDemo(force, rfault, cfault, rran, cran, order, fault_at) ==
  LET m == addDemo_main(template, dirs, cmake, linesep, demo, force, rfault, cfault,
                        rran, cran, order, fault_at)
  IN  /\ dirs' = m.dirs
      /\ cmake' = m.cmake
      /\ demo' = [demo EXCEPT !.export = m.export]
      /\ last' = Run("addDemo", DEMO, DemoArgs, force, "none", m.exit, m.out)
      /\ UNCHANGED <<template, linesep, pc, batch>>

NextDemo ==
  \E force \in BOOLEAN, rfault \in DemoRemoveFaults,
     cfault \in DemoCreateFaults(template), rran \in BOOLEAN, cran \in BOOLEAN,
     order \in Orders(DOMAIN demo.source.items),
     fault_at \in 0..Cardinality(ItemNames) :
    AddDemo(force, rfault, cfault, rran, cran, order, fault_at)

SpecDemo == InitDemo /\ [][NextDemo]_vars

\* ------------------------------------------------------------------ claims
Range(seq) == {seq[i] : i \in 1..Len(seq)}

\* the lines of the registry file, as readlines() gives them
RegLines(file) == IF file.exists THEN readlines(text_read(file.content)) ELSE <<>>

\* the lines whose trimmed content is add_subdirectory(<module_id>)
LinesFor(file, module_id) ==
  {i \in 1..Len(RegLines(file)) : strip(RegLines(file)[i]) = <<Directive(module_id)>>}

HasLine(file, module_id) == LinesFor(file, module_id) # {}

\* for every identifier, a registry line exactly when modules/<id> exists
Consistent(ds, file) ==
  \A X \in ModuleIds : HasLine(file, X) <=> X \in DOMAIN ds

IsRun == last'.op \in {"create", "remove"}

\* C1: if the registry has a line for X exactly when modules/X exists, for
\* every identifier X, then the same holds after every completed run of create
\* or remove.  Stated for the runs that exit 0, which the claim includes.
C1_ConsistencyAfterEveryRun ==
  [][(IsRun /\ last'.exit = 0 /\ Consistent(dirs, cmake))
       => Consistent(dirs', cmake')]_vars

\* C2: create(I) for a valid I with no modules/I and an existing registry file
\* of any content, meeting no I/O error, exits 0, leaves modules/I and
\* modules/I/I-rnbo, list() contains I, and the registry has exactly one line
\* whose trimmed content is add_subdirectory(I).
C2_CreatePostcondition ==
  [][(/\ last'.op = "create"
      /\ validate_module_id(last'.id)
      /\ last'.id \notin DOMAIN dirs
      /\ cmake.exists
      /\ last'.fault = "none")
       => (/\ last'.exit = 0
           /\ last'.id \in DOMAIN dirs'
           /\ dirs'[last'.id].rnbo
           /\ last'.id \in Range(list_available_modules(iterdir(dirs', cmake')))
           /\ Cardinality(LinesFor(cmake', last'.id)) = 1)]_vars

\* C3: remove(I), confirmed, of a module I that has its directory and its
\* registry line, meeting no I/O error, exits 0; afterwards modules/I does not
\* exist, list() does not contain I and the registry has no line for I.
C3_RemoveCreated ==
  [][(/\ last'.op = "remove"
      /\ last'.confirm
      /\ last'.fault = "none"
      /\ last'.id \in DOMAIN dirs
      /\ HasLine(cmake, last'.id))
       => (/\ last'.exit = 0
           /\ last'.id \notin DOMAIN dirs'
           /\ last'.id \notin Range(list_available_modules(iterdir(dirs', cmake')))
           /\ ~HasLine(cmake', last'.id))]_vars

\* a confirmed remove(VERB) has succeeded and left other text in the registry
C3_Witness ==
  /\ last.op = "remove" /\ last.id = VERB /\ last.confirm
  /\ last.out = "removed" /\ last.exit = 0
  /\ VERB \notin DOMAIN dirs
  /\ cmake.exists /\ cmake.content # <<>>

\* C4: remove(I) when modules/I does not exist reports "not found", exits
\* non-zero and leaves every module directory and the registry file as they
\* were; so does a remove(I) that follows a successful remove(I).
C4_RemoveAbsent ==
  [][/\ (last'.op = "remove" /\ last'.id \notin DOMAIN dirs)
          => (/\ last'.out = "not found"
              /\ last'.exit # 0
              /\ dirs' = dirs
              /\ cmake' = cmake)
     /\ (last.out = "removed" /\ last'.op = "remove" /\ last'.id = last.id)
          => (last'.out = "not found" /\ dirs' = dirs /\ cmake' = cmake)]_vars

\* remove(TEST) found no modules/TEST while the registry holds a line for TEST
C4_Witness ==
  /\ last.op = "remove" /\ last.id = TEST /\ last.out = "not found"
  /\ last.exit = 1
  /\ TEST \notin DOMAIN dirs
  /\ HasLine(cmake, TEST)

\* C5: create(I) for a valid I when modules/I exists reports "already
\* exists", exits non-zero, and leaves modules/I and the registry file as they
\* were, whatever the attributes of the call.
C5_CreateExisting ==
  [][(last'.op = "create" /\ validate_module_id(last'.id) /\ last'.id \in DOMAIN dirs)
       => (/\ last'.out = "already exists"
           /\ last'.exit # 0
           /\ dirs' = dirs
           /\ cmake' = cmake)]_vars

\* create(VERB) with a name and an author was refused, and modules/VERB is
\* still what the first create(VERB), without them, made
C5_Witness ==
  /\ last.op = "create" /\ last.id = VERB /\ last.args = NameArgs
  /\ last.out = "already exists" /\ last.exit = 1
  /\ VERB \in DOMAIN dirs
  /\ dirs[VERB] = Created(VERB, NoArgs)
  /\ dirs[VERB] # Created(VERB, NameArgs)

\* C6: create with an identifier that fails validation exits non-zero and
\* changes neither a directory under modules/ nor the registry file.
C6_CreateInvalid ==
  [][(last'.op = "create" /\ ~validate_module_id(last'.id))
       => (/\ last'.out = "invalid id"
           /\ last'.exit # 0
           /\ dirs' = dirs
           /\ cmake' = cmake)]_vars

\* create(ab1) was refused while the registry file exists
C6_Witness ==
  /\ last.op = "create" /\ last.id = AB1
  /\ last.out = "invalid id" /\ last.exit = 1
  /\ AB1 \notin DOMAIN dirs
  /\ cmake.exists

\* the file system SpecValidate starts from is the one it is in
NoSideEffect ==
  /\ dirs = [d \in {COMMON} |-> CommonTree]
  /\ cmake = File(<<>>)
  /\ template = TemplateModule

\* C7 as claimed: validate(id) is true exactly for the strings of length 4,
\* all alphanumeric, starting with a letter, containing no lowercase letter,
\* and it touches neither the file system nor the registry.
C7_ValidateNoLowercase ==
  last.op = "validate" =>
    /\ (last.out = "True") <=>
         (/\ Len(last.id) = 4
          /\ \A i \in 1..Len(last.id) : char_isalnum(last.id[i])
          /\ char_isalpha(last.id[1])
          /\ \A i \in 1..Len(last.id) : last.id[i] \notin LowerLetters)
    /\ NoSideEffect

\* C7 as amended: validate(id) is true exactly for the strings of length 4,
\* all alphanumeric, starting with a letter, that upper-casing leaves as they
\* are (no lowercase and no titlecase character); false for every other
\* string, the empty one included; and it touches neither the file system nor
\* the registry.
C7_ValidateUnchangedByUpper ==
  last.op = "validate" =>
    /\ (last.out = "True") <=>
         (/\ Len(last.id) = 4
          /\ \A i \in 1..Len(last.id) : char_isalnum(last.id[i])
          /\ char_isalpha(last.id[1])
          /\ \A i \in 1..Len(last.id) : char_upper(last.id[i]) = last.id[i])
    /\ (last.id = <<>> => last.out = "False")
    /\ NoSideEffect

\* validate accepted a string with a digit in it
C7_Witness ==
  /\ last.op = "validate" /\ last.out = "True"
  /\ \E i \in 1..Len(last.id) : last.id[i] = "1"

\* the elements of seq at the indexes in K, in their order, from index i on
RECURSIVE PickFrom(_, _, _)
PickFrom(seq, K, i) ==
  IF i > Len(seq) THEN <<>>
  ELSE (IF i \in K THEN <<seq[i]>> ELSE <<>>) \o PickFrom(seq, K, i + 1)

\* the lines of the file as they are on disk, each with its own line ending
RECURSIVE RawLinesFrom(_, _)
RawLinesFrom(bytes, i) ==
  IF i > Len(bytes) THEN (IF bytes = <<>> THEN <<>> ELSE <<bytes>>)
  ELSE IF bytes[i] \in {NL, CRLF}
  THEN <<SubSeq(bytes, 1, i)>> \o RawLinesFrom(SubSeq(bytes, i + 1, Len(bytes)), 1)
  ELSE RawLinesFrom(bytes, i + 1)

RawLines(file) == IF file.exists THEN RawLinesFrom(file.content, 1) ELSE <<>>

\* the lines of file that are not lines for module_id
OtherLines(file, module_id) ==
  (1..Len(RegLines(file))) \ LinesFor(file, module_id)

\* C8: add(I) on an existing registry file of any content leaves exactly one
\* line for I, and a second add(I) right after it leaves the file as the first
\* left it.
C8_AddTwiceOneLine ==
  [][(last'.op = "add" /\ cmake.exists)
       => (/\ Cardinality(LinesFor(cmake', last'.id)) = 1
           /\ (last.op = "add" /\ last.id = last'.id) => cmake' = cmake)]_vars

\* C9: add(I) leaves the file as it is exactly when the file has a line for
\* I; otherwise (also when the directive text is only part of a longer line)
\* the file gains the directive as a new last line and its earlier lines stay.
C9_AddAppendsUnlessLine ==
  [][(last'.op = "add" /\ cmake.exists)
       => IF HasLine(cmake, last'.id)
          THEN cmake' = cmake
          ELSE RawLines(cmake') =
                 RawLines(cmake) \o << <<Directive(last'.id), linesep>> >>]_vars

\* C10 as claimed: registry remove(I) deletes the lines whose trimmed content
\* is add_subdirectory(I) and no other, the other lines stay byte for byte
\* and in their order, it returns true iff a line was deleted, and with no
\* such line it returns false and leaves the file as it is.
C10_RemoveKeepsBytes ==
  [][(last'.op = "remove" /\ cmake.exists)
       => (/\ RawLines(cmake') =
                PickFrom(RawLines(cmake), OtherLines(cmake, last'.id), 1)
           /\ (last'.out = "True") <=> HasLine(cmake, last'.id)
           /\ ~HasLine(cmake, last'.id) => cmake' = cmake)]_vars

\* C10 as amended: registry remove(I) deletes the lines whose trimmed content
\* is add_subdirectory(I) and no other, the other lines stay in their order
\* with their text unchanged, but when a line was deleted every line ending of
\* the file is rewritten as os.linesep; it returns true iff a line was
\* deleted, and with no such line it returns false and leaves the file byte
\* for byte as it is.
C10_RemoveKeepsText ==
  [][(last'.op = "remove" /\ cmake.exists)
       => (/\ RegLines(cmake') =
                PickFrom(RegLines(cmake), OtherLines(cmake, last'.id), 1)
           /\ (last'.out = "True") <=> HasLine(cmake, last'.id)
           /\ HasLine(cmake, last'.id) =>
                \A i \in 1..Len(cmake'.content) :
                  cmake'.content[i] \in {NL, CRLF} => cmake'.content[i] = linesep
           /\ ~HasLine(cmake, last'.id) => cmake' = cmake)]_vars

\* remove(VERB) returned true and the line for TEST is still in the file
C10_Witness ==
  /\ last.op = "remove" /\ last.id = VERB /\ last.out = "True"
  /\ ~HasLine(cmake, VERB)
  /\ HasLine(cmake, TEST)

\* the text with every placeholder token replaced by its value, all the
\* tokens at once
RECURSIVE ReplacedAtOnce(_, _)
ReplacedAtOnce(content, substitutions) ==
  IF content = <<>> THEN <<>>
  ELSE LET K == {k \in 1..Len(substitutions) : substitutions[k].tok = Head(content)}
       IN  (IF K = {} THEN <<Head(content)>>
            ELSE substitutions[CHOOSE k \in K : TRUE].val)
           \o ReplacedAtOnce(Tail(content), substitutions)

HasToken(content) == \E i \in 1..Len(content) : content[i] \in Placeholders

\* what C11 asks of modules/<id> after a run of create
Substituted(tmpl, tree, substitutions) ==
  \A f \in DOMAIN tmpl :
    tmpl[f].text =>
      /\ f \in DOMAIN tree.files
      /\ ~HasToken(tree.files[f].data)
      /\ tree.files[f].data = ReplacedAtOnce(tmpl[f].data, substitutions)

MadeDirectory ==
  /\ last'.op = "create"
  /\ last'.id \notin DOMAIN dirs
  /\ last'.id \in DOMAIN dirs'
  /\ last'.fault # "copy"

\* C12: a file of the copied tree that does not decode as text is never
\* written by the substitution: after create it is, byte for byte, the
\* template's file, whatever I/O error another file meets; and the other
\* files are still processed: without an I/O error every text file holds
\* the template text with the substitutions made.
C12_BinaryFileUntouched ==
  [][MadeDirectory
       => \A f \in DOMAIN template :
            IF ~template[f].text
            THEN dirs'[last'.id].files[f] = template[f]
            ELSE last'.fault = "none"
                   => dirs'[last'.id].files[f] =
                        TextFile(substitute_all(template[f].data,
                                   collect_module_info(last'.id, last'.args)))]_vars

\* create(VERB) has left icon.png, tokens included, as the template has it
\* and has substituted in Module.cpp
C12_Witness ==
  /\ last.op = "create" /\ last.id = VERB /\ last.out = "created"
  /\ ~template["icon.png"].text
  /\ HasToken(template["icon.png"].data)
  /\ dirs[VERB].files["icon.png"] = template["icon.png"]
  /\ HasToken(template["Module.cpp"].data)
  /\ ~HasToken(dirs[VERB].files["Module.cpp"].data)

\* C14: in every state reached by runs of create and remove from a registry
\* with at most one line for each identifier, the registry has at most one
\* line for each identifier.
C14_AtMostOneLine ==
  \A X \in ModuleIds : Cardinality(LinesFor(cmake, X)) <= 1

\* create(VERB) has exited 0 on a registry that held the line for VERB
\* already (an append would have put it last), and has not added a second
C14_Witness ==
  /\ last.op = "create" /\ last.id = VERB /\ last.out = "created"
  /\ cmake.content = <<Directive(VERB), NL, Directive(TEST), NL>>
  /\ Cardinality(LinesFor(cmake, VERB)) = 1

\* C13: list() returns exactly the names of the entries of modules/ that
\* are directories and are not common, inc or .git, as the file system is
\* when it is called: never a reserved directory or a plain file such as
\* CMakeLists.txt, and every other directory.  Checked on the list with
\* which removeAll starts.
C13_ListExactly ==
  [][(batch.done /\ batch'.op \in {"removeAll", "removeAll cancelled"})
       => /\ \A item \in iterdir(dirs, cmake) :
               item.name \in Range(batch'.items)
                 <=> (item.is_dir /\ item.name \notin {COMMON, INC, DOTGIT})
          /\ \A i \in 1..Len(batch'.items) :
               /\ \E item \in iterdir(dirs, cmake) : item.name = batch'.items[i]
               /\ \A j \in 1..Len(batch'.items) :
                    batch'.items[i] = batch'.items[j] => i = j]_vars

\* removeAll has listed TEST and VERB, and neither inc nor CMakeLists.txt,
\* which are there
C13_Witness ==
  /\ batch.op = "removeAll" /\ batch.log = <<>> /\ ~batch.done
  /\ batch.items = <<TEST, VERB>>
  /\ {COMMON, INC, DOTGIT, TEST, VERB} \subseteq DOMAIN dirs
  /\ cmake.exists

\* the attempts of the batch that succeeded
Succeeded(b) ==
  {i \in 1..Len(b.log) : b.log[i].ran /\ b.log[i].returncode = 0}

\* C15: removeAll runs remove once for every identifier it listed and test
\* runs create once for every configured module, in their order, whatever the
\* exit code of the items before; each run is the run of that item; the
\* success count is the number of items whose run exited 0; and the batch
\* exits 0 iff that count is the number of items.
C15_BatchIsolatesFailures ==
  [][(batch' # batch /\ batch'.op \in {"removeAll", "test"})
       => /\ batch'.op = "test" => batch'.items = <<TEST, VERB>>
          /\ [i \in 1..Len(batch'.log) |-> batch'.log[i].id] \o batch'.todo
               = batch'.items
          /\ batch'.success_count = Cardinality(Succeeded(batch'))
          /\ batch'.total_count = Len(batch'.items)
          /\ batch'.done <=> batch'.todo = <<>>
          /\ batch'.done
               => (batch'.exit = 0 <=> batch'.success_count = batch'.total_count)
          /\ (Len(batch'.log) > Len(batch.log) /\ batch'.log[Len(batch'.log)].ran)
               => /\ last'.op = (IF batch'.op = "test" THEN "create" ELSE "remove")
                  /\ last'.id = batch'.items[Len(batch'.log)]
                  /\ last'.exit = batch'.log[Len(batch'.log)].returncode]_vars

\* removeAll is done: the remove of TEST failed, the remove of VERB was run
\* all the same and exited 0, and the batch counts 1 of 2 and exits 1
C15_Witness ==
  /\ batch.op = "removeAll" /\ batch.done
  /\ batch.items = <<TEST, VERB>>
  /\ Len(batch.log) = 2
  /\ batch.log[1].ran /\ batch.log[1].returncode = 1
  /\ batch.log[2].ran /\ batch.log[2].returncode = 0
  /\ batch.success_count = 1 /\ batch.exit = 1
  /\ last.op = "remove" /\ last.id = VERB /\ last.exit = 0

C17_ThreeOutcomes ==
  [][(last'.op = "remove" /\ last'.confirm /\ last'.id \in DOMAIN dirs)
       => LET line == HasLine(cmake, last'.id) /\ ~HasLine(cmake', last'.id)
              directory == last'.id \notin DOMAIN dirs'
          IN  /\ (line /\ directory) <=> (last'.out = "removed" /\ last'.exit = 0)
              /\ (line # directory) <=> last'.out = "partially removed"
              /\ (~line /\ ~directory)
                   => last'.out \notin {"removed", "partially removed"}]_vars

\* the run of create that last' records has copied the whole template to
\* modules/<id> and made the export directory
CopyCompleted ==
  /\ last'.id \notin DOMAIN dirs
  /\ last'.id \in DOMAIN dirs'
  /\ DOMAIN dirs'[last'.id].files = DOMAIN template
  /\ dirs'[last'.id].rnbo

\* C18: create(I) validates the identifier, then instantiates the template,
\* then adds to the registry: a run changes a directory only with a valid
\* identifier and changes the registry file only when it has completed the
\* copy; and it exits 0 only if modules/I exists and the registry has a line
\* for I.
C18_CreateOrderAndSuccess ==
  [][last'.op = "create"
       => /\ dirs' # dirs => validate_module_id(last'.id)
          /\ cmake' # cmake => (validate_module_id(last'.id) /\ CopyCompleted)
          /\ last'.exit = 0
               => (last'.id \in DOMAIN dirs' /\ HasLine(cmake', last'.id))]_vars

\* C19: when create(I) has copied the template and the registry add then
\* fails (the registry file is missing, or reading it raises), create exits
\* non-zero and undoes nothing: modules/I stays as the copy and the
\* substitution made it, every other directory stays, and the registry file
\* is as it was, so it gains no line for I.
C19_NoRollback ==
  [][(/\ last'.op = "create"
      /\ validate_module_id(last'.id)
      /\ last'.id \notin DOMAIN dirs
      /\ last'.fault # "copy"
      /\ (~cmake.exists \/ last'.fault = "registry"))
       => (/\ last'.exit # 0
           /\ CopyCompleted
           /\ last'.fault # "subst" => dirs'[last'.id] = Created(last'.id, last'.args)
           /\ \A d \in DOMAIN dirs : dirs'[d] = dirs[d]
           /\ cmake' = cmake
           /\ ~cmake.exists => ~HasLine(cmake', last'.id))]_vars

\* create(VERB) found no registry file: it exited 1 and modules/VERB is
\* there, complete
C19_Witness ==
  /\ last.op = "create" /\ last.id = VERB /\ last.args = NoArgs
  /\ last.out = "no CMakeLists.txt" /\ last.exit = 1
  /\ ~cmake.exists
  /\ VERB \in DOMAIN dirs
  /\ dirs[VERB] = Created(VERB, NoArgs)

\* C20: a read or write error on one file during the substitution does not
\* stop it: every file that meets no error is processed (a text file holds
\* the template text with the substitutions made), and create goes on to
\* the registry add and ends as a run without the error does.
C20_SubstitutionGoesOn ==
  [][\A args \in SubstituteArgSets, fault \in SubstituteFaults(template) :
       (Create(VERB, args, fault) /\ VERB \notin DOMAIN dirs)
         => /\ VERB \in DOMAIN dirs'
            /\ \A f \in fault.files :
                 /\ f \in DOMAIN dirs'[VERB].files
                 /\ template[f].text
                      => dirs'[VERB].files[f] =
                           TextFile(substitute_all(template[f].data,
                                                   collect_module_info(VERB, args)))
            /\ cmake' = update_modules_cmake(cmake, VERB, linesep).cmake
            /\ HasLine(cmake', VERB)
            /\ last'.out = "created" /\ last'.exit = 0]_vars

\* create(VERB) met an error on Module.cpp, which still holds its tokens;
\* Module.h is substituted and the registry has the line for VERB
C20_Witness ==
  /\ last.op = "create" /\ last.id = VERB /\ last.fault = "subst"
  /\ last.out = "created" /\ last.exit = 0
  /\ HasToken(dirs[VERB].files["Module.cpp"].data)
  /\ ~HasToken(dirs[VERB].files["Module.h"].data)
  /\ dirs[VERB].files["Module.h"].data # <<>>
  /\ HasLine(cmake, VERB)

\* C21: no run of remove, whatever its identifier argument and with or
\* without --force, deletes or changes a reserved directory of modules/
\* (common, inc, .git).
C21_ReservedNeverRemoved ==
  [][last'.op = "remove"
       => \A d \in {COMMON, INC, DOTGIT} :
            d \in DOMAIN dirs => (d \in DOMAIN dirs' /\ dirs'[d] = dirs[d])]_vars

\* C22: after a create(I) that failed and left modules/I, whole or partial,
\* with no registry line for I, a confirmed remove(I) that meets no I/O error
\* leaves no modules/I and no registry line for I and changes nothing else in
\* the registry; and from there a create(I) that meets no I/O error, the
\* registry file being there, makes modules/I and exits 0.
C22_RemoveCompensates ==
  [][/\ (/\ last.op = "create" /\ last.exit # 0
         /\ last.id \in DOMAIN dirs /\ ~HasLine(cmake, last.id)
         /\ last'.op = "remove" /\ last'.id = last.id
         /\ last'.confirm /\ last'.fault = "none")
          => (/\ last'.id \notin DOMAIN dirs'
              /\ ~HasLine(cmake', last'.id)
              /\ cmake' = cmake)
     /\ (/\ last.op = "remove" /\ last.confirm
         /\ last.id \notin DOMAIN dirs /\ ~HasLine(cmake, last.id)
         /\ cmake.exists /\ validate_module_id(last.id)
         /\ last'.op = "create" /\ last'.id = last.id /\ last'.fault = "none")
          => (/\ last'.exit = 0 /\ last'.out = "created"
              /\ last'.id \in DOMAIN dirs'
              /\ dirs'[last'.id] = Created(last'.id, last'.args))]_vars

\* remove(VERB) has deleted a modules/VERB that had no registry line: it
\* reported a partial removal, and VERB has neither directory nor line
C22_Witness ==
  /\ last.op = "remove" /\ last.id = VERB /\ last.confirm
  /\ last.fault = "none"
  /\ last.out = "partially removed" /\ last.exit = 1
  /\ VERB \notin DOMAIN dirs
  /\ cmake.exists /\ ~HasLine(cmake, VERB)

\* C23: two processes without a lock can break registry/directory
\* consistency. remove(X) writes back the lines it read earlier, whatever the
\* file holds when it writes: when it drops a line of X, the file becomes the
\* lines it read less those of X, so a module Y whose directory exists and
\* whose line was appended by create(Y) after the read has no line after the
\* write; when it drops nothing, the file is left as it is.
C23_WriteBackOfLinesRead ==
  [][(/\ pc.op = "remove" /\ pc.step = "remove_from_cmake"
      /\ IsHolding(pc) /\ pc' # pc)
       => LET target == <<Directive(pc.id), NL>>
              kept == LinesNotMatching(pc.lines, target)
          IN  IF Len(kept) < Len(pc.lines)
              THEN /\ cmake'.exists
                   /\ RegLines(cmake') = kept
                   /\ \A y \in ModuleIds \ {pc.id} :
                        (/\ y \in DOMAIN dirs /\ HasLine(cmake, y)
                         /\ \A i \in 1..Len(pc.lines) :
                              strip(pc.lines[i]) # <<Directive(y)>>)
                          => (y \in DOMAIN dirs' /\ ~HasLine(cmake', y))
              ELSE cmake' = cmake]_vars

\* remove(VERB) read the registry, create(TEST) then succeeded and appended
\* its line, and remove(VERB) has written its lines back: modules/TEST is
\* there, made by a create that exited 0, and the registry is empty
C23_Witness ==
  /\ pc.op = "remove" /\ pc.id = VERB /\ pc.step = "remove_module_directory"
  /\ pc.success
  /\ last.op = "create" /\ last.id = TEST /\ last.exit = 0 /\ last.out = "created"
  /\ TEST \in DOMAIN dirs /\ dirs[TEST] = Created(TEST, NoArgs)
  /\ cmake.exists /\ cmake.content = <<>> /\ ~HasLine(cmake, TEST)

\* what addDemo.py copied: an entry of the export directory that holds
\* content of template/Demo/Demo-rnbo
Copied(export) ==
  \E n \in DOMAIN export :
    \/ export[n].kind = "file" /\ export[n].data = "src"
    \/ export[n].kind = "dir" /\ \E k \in DOMAIN export[n].items : export[n].items[k] = "src"

\* C24: addDemo populates modules/DEMO/DEMO-rnbo only after create(DEMO)
\* succeeded: when DEMO exists and --force is not given, when the forced
\* remove fails and when create fails, nothing is copied into it; on success
\* every top-level file and subdirectory of template/Demo/Demo-rnbo is in
\* it, as the source has it (a subdirectory that was there is replaced).
C24_DemoProvisioning ==
  [][last'.op = "addDemo"
       => /\ last'.out \in {"already exists", "remove failed", "create failed"}
               => (demo'.export = demo.export \/ ~Copied(demo'.export))
          /\ last'.out = "already exists" => demo'.export = demo.export
          /\ last'.exit = 0
               => \A n \in DOMAIN demo.source.items :
                    demo.source.items[n].kind \in {"file", "dir"}
                      => (/\ n \in DOMAIN demo'.export
                          /\ demo'.export[n] = demo.source.items[n])]_vars

\* C25: registry add/remove round trip.  When the registry file has no line
\* for I (its last line ending with a newline or not), after add(I) a
\* remove(I) returns true and gives back the lines the file had before the
\* add.
C25_AddRemoveRoundTrip ==
  [][(/\ cmake.exists /\ ~HasLine(cmake, last'.id)
      /\ last'.op = "add")
       => LET r == remove_from_cmake(cmake', last'.id, linesep, FALSE)
          IN  /\ r.ret
              /\ RegLines(r.cmake) = RegLines(cmake)]_vars

\* the lines for module_id, in their order, as the scripts read them
LinesOf(file, module_id) == PickFrom(RegLines(file), LinesFor(file, module_id), 1)

\* C26: frame of create(I) and remove(I).  A run leaves the template tree
\* as it is, leaves every module directory other than modules/I as it is
\* (none is made, deleted or modified), and leaves the registry lines of
\* every identifier other than I as they are (none is added, deleted or
\* changed).
C26_Frame ==
  [][last'.op \in {"create", "remove"}
       => /\ template' = template
          /\ \A d \in (DOMAIN dirs \cup DOMAIN dirs') \ {last'.id} :
               d \in DOMAIN dirs /\ d \in DOMAIN dirs' /\ dirs'[d] = dirs[d]
          /\ \A j \in ModuleIds \ {last'.id} :
               LinesOf(cmake', j) = LinesOf(cmake, j)]_vars

====
